---- MODULE Spec2Model ----
(***************************************************************************)
(* Model of the roster optimiser: PlayerAsset / PlayerValuationModel /     *)
(* PortfolioAnalyzer (src/src/player_valuation.py) and RosterConstraints / *)
(* Chromosome / EvolutionEngine (src/src/evolution_engine.py).             *)
(*                                                                         *)
(* Numbers.  Money is counted in thousands of dollars and epa_total in     *)
(* tenths of a point.  A Python float                                      *)
(* that is a ratio or a score is kept in fixed point: the integer          *)
(* floor(x * Unit).  Unit = 5100 makes every risk score the code can       *)
(* produce (multiples of 1/51, 0.1, 0.15, 0.25 weighted by 0.4 and 0.2)    *)
(* an exact integer.                                                       *)
(*                                                                         *)
(* Objects.  heap is the sequence of live PlayerAsset objects; an object   *)
(* is named by its index.  heap[1..NPool] are the pool objects the engine  *)
(* was constructed with; objects created by a call (deepcopy, the player   *)
(* handed to value_player) follow them and live as long as the last        *)
(* call's result references them.                                          *)
(*                                                                         *)
(* Constraints.  constraints is the sequence of live RosterConstraints     *)
(* objects, named by index like the players; constraints[1] is the object  *)
(* the caller built and passed to the engine.  engine holds the references *)
(* the EvolutionEngine instance stores.                                    *)
(*                                                                         *)
(* Calls.  ret records the last call: its name (op), its arguments, the    *)
(* exception it raised ("None" when it returned) and the value returned.   *)
(***************************************************************************)
EXTENDS Integers, Sequences, FiniteSets, TLC

VARIABLES heap, constraints, engine, ret

vars == <<heap, constraints, engine, ret>>

----------------------------------------------------------------------------
(* Bounds of the exploration *)

\* longest player list handed to Chromosome(...) by a caller
MaxRoster == 2
\* largest population handed to tournament_selection
MaxPopulation == 3
\* largest tournament_size / population_size attribute a caller sets
MaxSize == 3
\* longest player list handed to PortfolioAnalyzer(...) for a report
MaxReport == 3

----------------------------------------------------------------------------
(* Fixed point and results *)

\* 51 (the games of three seasons, the divisor of the injury risk) times 100
Unit == 51 * 100

Min(a, b) == IF a < b THEN a ELSE b
Max(a, b) == IF a > b THEN a ELSE b
Abs(a) == IF a < 0 THEN 0 - a ELSE a

\* dict.get(k, default)
Get(d, k, default) == IF k \in DOMAIN d THEN d[k] ELSE default

\* a call that returned v / a call that raised exception e
Return(v) == [raised |-> "None", value |-> v]
Raise(e) == [raised |-> e, value |-> <<>>]

RECURSIVE SumSeq(_)
SumSeq(s) == IF s = <<>> THEN 0 ELSE Head(s) + SumSeq(Tail(s))

Range(s) == {s[i] : i \in DOMAIN s}

IsInjective(s) == \A i, j \in DOMAIN s : s[i] = s[j] => i = j

----------------------------------------------------------------------------
(* PlayerValuationModel *)

position_baselines ==
    [QB |-> 35000, WR |-> 18000, RB |-> 8000, TE |-> 10000, OT |-> 18000,
     OG |-> 12000, C |-> 12000, EDGE |-> 20000, DL |-> 15000, LB |-> 12000,
     CB |-> 16000, S |-> 12000, K |-> 3000, P |-> 2000, LS |-> 1500]

epa_to_dollars ==
    [QB |-> 2500, WR |-> 1800, RB |-> 1200, TE |-> 1500, OT |-> 1000,
     OG |-> 900, C |-> 900, EDGE |-> 1600, DL |-> 1400, LB |-> 1300,
     CB |-> 1600, S |-> 1400, K |-> 500, P |-> 400, LS |-> 300]

peak_ages ==
    [QB |-> 28, WR |-> 26, RB |-> 25, TE |-> 27, OT |-> 28, OG |-> 28,
     C |-> 29, EDGE |-> 27, DL |-> 27, LB |-> 27, CB |-> 27, S |-> 27,
     K |-> 30, P |-> 30, LS |-> 30]

\* position_risk of calculate_risk_score, times Unit
position_risk ==
    [QB |-> 510, WR |-> 1020, RB |-> 2040, TE |-> 1020, OT |-> 765,
     OG |-> 765, C |-> 765, EDGE |-> 1275, DL |-> 1275, LB |-> 1020,
     CB |-> 1020, S |-> 1020, K |-> 510, P |-> 510, LS |-> 510]

\* max((base + epa * rate) * min(snaps / 1000, 1.5), 0), in thousands;
\* epa_total is counted in tenths of a point
calculate_expected_value(player) ==
    LET base_value == Get(position_baselines, player.position, 10000)
        epa_value == (player.epa_total * Get(epa_to_dollars, player.position, 1000))
                        \div 10
        performance_value == base_value + epa_value
        adjusted_value == (performance_value * Min(player.snaps_played, 1500)) \div 1000
    IN  Max(adjusted_value, 0)

\* 0.4 * injury + 0.4 * age + 0.2 * position, times Unit
calculate_risk_score(player) ==
    LET injury_risk == Min((player.games_missed * Unit) \div 51, Unit \div 2)
        age_diff == player.age - Get(peak_ages, player.position, 27)
        age_risk == IF age_diff <= 0 THEN 0
                    ELSE IF age_diff <= 2 THEN Unit \div 10
                    ELSE IF age_diff <= 4 THEN (3 * Unit) \div 10
                    ELSE Unit \div 2
        pos_risk == Get(position_risk, player.position, Unit \div 5)
    IN  (4 * injury_risk + 4 * age_risk + 2 * pos_risk) \div 10

\* a fair value discounted from the value already stored on the player
calculate_fair_value_compounding(player) ==
    LET base == IF player.fair_value # 0 THEN player.fair_value
                ELSE player.expected_value
    IN  (base * (Unit - player.risk_score)) \div Unit

\* expected_value * (1 - risk_score)
calculate_fair_value(player) ==
    (player.expected_value * (Unit - player.risk_score)) \div Unit

\* expected_value / cap_hit, 0.0 when the cap hit is not positive
calculate_efficiency_ratio(player) ==
    IF player.cap_hit_2026 <= 0
    THEN Return(0)
    ELSE Return((player.expected_value * Unit) \div player.cap_hit_2026)

\* (expected_value - cap_hit) / (risk_score * cap_hit); the guard looks at
\* the risk score only, so a zero cap hit reaches the division
calculate_sharpe_ratio(player) ==
    IF player.risk_score <= 0
    THEN Return(0)
    ELSE LET excess_return == player.expected_value - player.cap_hit_2026
         IN  IF player.risk_score * player.cap_hit_2026 = 0
             THEN Raise("ZeroDivisionError")
             ELSE Return((((excess_return * Unit) \div player.cap_hit_2026) * Unit)
                            \div player.risk_score)

\* the instance attributes PlayerValuationModel.__init__ assigns; its
\* risk_free_rate parameter is not among them
PlayerValuationModelAttributes ==
    {"position_baselines", "epa_to_dollars", "peak_ages"}

\* annual_net / (1 + discount_rate) ** year, times 1 (money)
RECURSIVE DiscountedNet(_, _, _)
DiscountedNet(annual_net, discount_rate, year) ==
    IF year = 0 THEN annual_net
    ELSE (DiscountedNet(annual_net, discount_rate, year - 1) * Unit)
            \div (Unit + discount_rate)

\* calculate_npv of a model built with PlayerValuationModel(risk_free_rate):
\* reading self.risk_free_rate raises AttributeError, the attribute never
\* having been assigned; the loop after it sums the discounted annual nets
calculate_npv(risk_free_rate, player) ==
    LET risk_premium == player.risk_score \div 10
    IN  IF "risk_free_rate" \notin PlayerValuationModelAttributes
        THEN Raise("AttributeError")
        ELSE LET discount_rate == risk_free_rate + risk_premium
                 annual_value == player.expected_value
                                    \div Max(player.years_remaining, 1)
                 annual_cost == player.cap_hit_2026
                 annual_net == annual_value - annual_cost
             IN  Return(SumSeq([y \in 1..player.years_remaining |->
                            DiscountedNet(annual_net, discount_rate, y - 1)]))

\* value_player assigns the five computed fields in order; an exception
\* leaves the fields assigned before it.  player is the object's state when
\* the call ends.
value_player(p) ==
    LET p1 == [p EXCEPT !.expected_value = calculate_expected_value(p)]
        p2 == [p1 EXCEPT !.risk_score = calculate_risk_score(p1)]
        p3 == [p2 EXCEPT !.fair_value = calculate_fair_value(p2)]
        eff == calculate_efficiency_ratio(p3)
        p4 == [p3 EXCEPT !.efficiency_ratio = eff.value]
        sharpe == calculate_sharpe_ratio(p4)
    IN  IF sharpe.raised # "None"
        THEN [raised |-> sharpe.raised, player |-> p4]
        ELSE [raised |-> "None", player |-> [p4 EXCEPT !.sharpe_ratio = sharpe.value]]

\* PlayerAsset(...) as the dataclass constructs it: computed fields 0.0
PlayerAsset(id, pos, age, cap, years, epa, snaps, missed) ==
    [player_id |-> id, position |-> pos, age |-> age, cap_hit_2026 |-> cap,
     years_remaining |-> years, epa_total |-> epa, snaps_played |-> snaps,
     games_missed |-> missed, expected_value |-> 0, risk_score |-> 0,
     fair_value |-> 0, efficiency_ratio |-> 0, sharpe_ratio |-> 0]

----------------------------------------------------------------------------
(* The player pool the engine is constructed with *)

\* Two quarterbacks, a kicker with no cap hit, and a fullback: "FB" is a
\* position code none of the tables knows.
RawPool ==
    << PlayerAsset("p1", "QB", 27, 3000, 2, 20, 1000, 0),
       PlayerAsset("p2", "QB", 30, 1000, 1, 0, 500, 5),
       PlayerAsset("p3", "K", 33, 0, 1, 10, 200, 0),
       PlayerAsset("p4", "FB", 24, 2000, 3, 0 - 10, 600, 30) >>

NPool == Len(RawPool)

\* model.value_roster(...) has been applied to the pool before the engine is
\* built (test_evolution.py); each object is as value_player left it
ValuedPool == [i \in 1..NPool |-> value_player(RawPool[i]).player]

\* the constraint sets a caller configures the engine with
RosterConstraints(mn, mx, cap, limits) ==
    [min_roster_size |-> mn, max_roster_size |-> mx, salary_cap |-> cap,
     position_limits |-> limits]

ConstraintChoices ==
    { RosterConstraints(1, 2, 4000, [QB |-> <<1, 1>>, K |-> <<0, 1>>]),
      RosterConstraints(2, 2, 6000, [QB |-> <<0, 2>>, K |-> <<0, 1>>, FB |-> <<0, 1>>]),
      RosterConstraints(1, 2, 3000, <<>>),
      RosterConstraints(3, 3, 4000, [QB |-> <<1, 1>>, K |-> <<1, 1>>, FB |-> <<0, 1>>]),
      RosterConstraints(1, 1, 0, <<>>),
      RosterConstraints(2, 1, 4000, [QB |-> <<2, 1>>]),
      RosterConstraints(1, 1, 4000, [QB |-> <<0, 1>>, K |-> <<1, 1>>, FB |-> <<0, 1>>]) }

\* the player lists a caller can hand over: pool objects, none twice
Rosters ==
    {s \in UNION {[1..k -> 1..NPool] : k \in 0..MaxRoster} : IsInjective(s)}

----------------------------------------------------------------------------
(* Chromosome *)

\* Chromosome(players): fitness and the lazily built analyzer are not read
\* by any operation below before they are rebuilt, so only players is kept
Chromosome(players) == [players |-> players]

\* sum of cap hits
total_cap(h, c) == SumSeq([i \in DOMAIN c.players |-> h[c.players[i]].cap_hit_2026])

\* position -> count, only for the positions present
position_counts(h, c) ==
    [pos \in {h[c.players[i]].position : i \in DOMAIN c.players} |->
        Cardinality({i \in DOMAIN c.players : h[c.players[i]].position = pos})]

\* is_valid with the salary-cap check left out
is_valid_without_cap_check(h, c, cons) ==
    IF Len(c.players) < cons.min_roster_size THEN Return(FALSE)
    ELSE IF Len(c.players) > cons.max_roster_size THEN Return(FALSE)
    ELSE IF DOMAIN cons.position_limits # {} THEN Raise("NameError")
    ELSE Return(TRUE)

\* is_valid: the size and cap checks return False; the position loop binds
\* its key to the name "positition" and then reads the name "position",
\* which no scope defines, so the first iteration raises NameError and the
\* loop completes only over an empty table
is_valid(h, c, cons) ==
    IF Len(c.players) < cons.min_roster_size THEN Return(FALSE)
    ELSE IF Len(c.players) > cons.max_roster_size THEN Return(FALSE)
    ELSE IF total_cap(h, c) > cons.salary_cap THEN Return(FALSE)
    ELSE IF DOMAIN cons.position_limits # {} THEN Raise("NameError")
    ELSE Return(TRUE)

\* clone: one deepcopy per list entry; the copies are the objects that
\* follow the pool in the heap
CloneObjects(h, c) == [i \in DOMAIN c.players |-> h[c.players[i]]]

\* a clone that copies the list but not the players
clone_shallow(c, base) == Chromosome(c.players)

clone(c, base) == Chromosome([i \in DOMAIN c.players |-> base + i])

----------------------------------------------------------------------------
(* PortfolioAnalyzer *)

RECURSIVE SumOver(_, _)
SumOver(f, S) ==
    IF S = {} THEN 0
    ELSE LET x == CHOOSE y \in S : TRUE IN f[x] + SumOver(f, S \ {x})

\* a float of a pandas result: NaN, or the fixed-point number v
Float(v) == [nan |-> FALSE, v |-> v]
NaN == [nan |-> TRUE, v |-> 0]

\* the analyzer's frame has a column per key of the row dicts, so the frame
\* of an empty player list has no column and reading one raises KeyError
total_value(h, players) ==
    IF players = <<>> THEN Raise("KeyError")
    ELSE Return(SumSeq([i \in DOMAIN players |-> h[players[i]].expected_value]))

total_cost(h, players) ==
    IF players = <<>> THEN Raise("KeyError")
    ELSE Return(SumSeq([i \in DOMAIN players |-> h[players[i]].cap_hit_2026]))

\* total_value / total_cost if total_cost > 0 else 0
portfolio_efficiency(h, players) ==
    LET cost == total_cost(h, players)
    IN  IF cost.raised # "None" THEN cost
        ELSE IF cost.value > 0
        THEN Return((total_value(h, players).value * Unit) \div cost.value)
        ELSE Return(0)

\* the plain mean of the risk scores
portfolio_risk_unweighted(h, players) ==
    LET cost == total_cost(h, players)
    IN  IF cost.raised # "None" THEN cost
        ELSE IF cost.value = 0 THEN Return(0)
        ELSE Return(SumSeq([i \in DOMAIN players |-> h[players[i]].risk_score])
                    \div Len(players))

\* sum of risk_score * (cap_hit / total_cap), 0 when the total cap is 0; each
\* weight is divided out first and each product is rounded, as the code's
\* floats are
portfolio_risk(h, players) ==
    LET cost == total_cost(h, players)
    IN  IF cost.raised # "None" THEN cost
        ELSE IF cost.value = 0 THEN Return(0)
        ELSE Return(SumSeq([i \in DOMAIN players |->
                (h[players[i]].risk_score
                    * ((h[players[i]].cap_hit_2026 * Unit) \div cost.value))
                \div Unit]))

\* (total_value - total_cost) / (risk * total_cost), 0 when the risk is 0
portfolio_sharpe(h, players) ==
    LET value == total_value(h, players)
        cost == total_cost(h, players)
        risk == portfolio_risk(h, players)
    IN  IF value.raised # "None" THEN value
        ELSE IF risk.value = 0 THEN Return(0)
        ELSE Return(((((value.value - cost.value) * Unit) \div cost.value) * Unit)
                        \div risk.value)

\* per position, spending / total_cap * 100; the division is the frame's,
\* which yields NaN for 0 / 0 instead of raising
position_allocation(h, players) ==
    LET cost == total_cost(h, players)
        positions == {h[players[i]].position : i \in DOMAIN players}
        position_spending ==
            [pos \in positions |->
                SumSeq([i \in DOMAIN players |->
                    IF h[players[i]].position = pos
                    THEN h[players[i]].cap_hit_2026 ELSE 0])]
    IN  IF cost.raised # "None" THEN cost
        ELSE Return([pos \in positions |->
                IF cost.value = 0 THEN NaN
                ELSE Float(((position_spending[pos] * Unit) \div cost.value) * 100)])

\* len(identify_overvalued()): rows with cap_hit > fair_value * 1.15
num_overvalued(h, players) ==
    Cardinality({i \in DOMAIN players :
        100 * h[players[i]].cap_hit_2026 > 115 * h[players[i]].fair_value})

\* len(identify_undervalued()): rows with cap_hit < fair_value * 0.85
num_undervalued(h, players) ==
    Cardinality({i \in DOMAIN players :
        100 * h[players[i]].cap_hit_2026 < 85 * h[players[i]].fair_value})

\* the dict of summary_report; the first column read raises for an empty frame
summary_report(h, players) ==
    IF players = <<>> THEN Raise("KeyError")
    ELSE Return(
        [total_value |-> total_value(h, players).value,
         total_cost |-> total_cost(h, players).value,
         efficiency |-> portfolio_efficiency(h, players).value,
         risk |-> portfolio_risk(h, players).value,
         sharpe_ratio |-> portfolio_sharpe(h, players).value,
         position_allocation |-> position_allocation(h, players).value,
         num_overvalued |-> num_overvalued(h, players),
         num_undervalued |-> num_undervalued(h, players),
         avg_roster_age |->
            (SumSeq([i \in DOMAIN players |-> h[players[i]].age]) * Unit)
                \div Len(players),
         total_players |-> Len(players)])

\* [value_player(p) for p in players]
value_roster(players) ==
    LET valued == [i \in DOMAIN players |-> value_player(players[i])]
    IN  IF \E i \in DOMAIN players : valued[i].raised # "None"
        THEN Raise(valued[CHOOSE i \in DOMAIN players :
                        /\ valued[i].raised # "None"
                        /\ \A j \in 1..(i - 1) : valued[j].raised = "None"].raised)
        ELSE Return([i \in DOMAIN players |-> valued[i].player])

\* the three-player roster of the valuation test
test_roster ==
    << PlayerAsset("pittman001", "WR", 28, 29000, 1, 124, 950, 0),
       PlayerAsset("buckner001", "DL", 32, 26600, 2, 82, 680, 10),
       PlayerAsset("nelson001", "OG", 28, 24200, 3, 156, 1050, 2) >>

\* the players a caller reports on: the test roster and two healthy
\* quarterbacks of one age, whose risk scores are equal
ReportPlayers ==
    Range(test_roster)
        \cup {PlayerAsset("qb_a", "QB", 27, 1000, 1, 0, 1000, 0),
              PlayerAsset("qb_b", "QB", 27, 6000, 1, 0, 1000, 0)}

ReportRosters ==
    {s \in UNION {[1..n -> ReportPlayers] : n \in 1..MaxReport} : IsInjective(s)}

----------------------------------------------------------------------------
(* EvolutionEngine: fitness *)

\* the sentinel fitness_function returns for an invalid roster
Sentinel == -1000

\* one position's score: 0 outside [min, max]; else 1 - 0.5 * |count -
\* ideal| / (ideal - min) with ideal the midpoint, 1.0 when min = max
PositionScore(count, min_count, max_count) ==
    IF count < min_count THEN 0
    ELSE IF count > max_count THEN 0
    ELSE IF max_count - min_count > 0
    THEN Unit - ((Abs(2 * count - (min_count + max_count)) * Unit)
                    \div (max_count - min_count)) \div 2
    ELSE Unit

\* every position scored against the bounds of one and the same position
PositionScoresAgainstOneBound(h, c, cons) ==
    LET pos_counts == position_counts(h, c)
        limits == cons.position_limits
        one == CHOOSE pos \in DOMAIN limits : TRUE
    IN  [pos \in DOMAIN limits |->
            PositionScore(Get(pos_counts, pos, 0), limits[one][1], limits[one][2])]

\* the score of each constrained position, from its own (min, max)
PositionScores(h, c, cons) ==
    LET pos_counts == position_counts(h, c)
        limits == cons.position_limits
    IN  [pos \in DOMAIN limits |->
            PositionScore(Get(pos_counts, pos, 0), limits[pos][1], limits[pos][2])]

_calculate_position_balance(h, c, cons) ==
    LET score == PositionScores(h, c, cons)
        total_positions == Cardinality(DOMAIN cons.position_limits)
    IN  IF total_positions > 0
        THEN SumOver(score, DOMAIN cons.position_limits) \div total_positions
        ELSE 0

\* 1.0 for a utilization in [0.90, 0.95], utilization / 0.90 below it,
\* max(0, 2 - utilization / 0.95) above it
CapScore(cap_used, cap_available) ==
    IF 90 * cap_available <= 100 * cap_used /\ 100 * cap_used <= 95 * cap_available
    THEN Unit
    ELSE IF 100 * cap_used <= 90 * cap_available
    THEN (cap_used * Unit * 10) \div (9 * cap_available)
    ELSE Max(0, 2 * Unit - (cap_used * Unit * 20) \div (19 * cap_available))

fitness_function(h, c, cons) ==
    LET valid == is_valid(h, c, cons)
        efficiency == portfolio_efficiency(h, c.players)
        efficiency_score == Min((2 * efficiency.value) \div 3, Unit)
        risk == portfolio_risk(h, c.players)
        risk_score == Unit - risk.value
        position_balance == _calculate_position_balance(h, c, cons)
        cap_used == total_cap(h, c)
        cap_available == cons.salary_cap
        cap_score == CapScore(cap_used, cap_available)
    IN  IF valid.raised # "None" THEN valid
        ELSE IF ~valid.value THEN Return(Sentinel * Unit)
        ELSE IF efficiency.raised # "None" THEN efficiency
        ELSE IF cap_available = 0 THEN Raise("ZeroDivisionError")
        ELSE Return((40 * efficiency_score + 25 * risk_score
                        + 20 * position_balance + 15 * cap_score) \div 100)

----------------------------------------------------------------------------
(* EvolutionEngine: attributes *)

\* the attributes an EvolutionEngine instance has: those __init__ assigns
\* and the methods the class defines
EvolutionEngineAttributes ==
    {"current_roster", "available_players", "constraints", "valuation_model",
     "population_size", "generations", "mutation_rate", "crossover_rate",
     "tournament_size", "elitism_count", "history", "best_ever",
     "best_fitness_ever", "fitness_function", "_calculate_position_balance",
     "initialize_population", "_generate_random_roster",
     "tournament_selection", "crossover"}

\* engine.<name>: AttributeError for a name the instance does not have
GetAttribute(name) ==
    IF name \in EvolutionEngineAttributes THEN Return(name) ELSE Raise("AttributeError")

\* the rosters the engine is constructed with (test_evolution.py passes the
\* team's players and the whole pool)
current_roster == <<1, 3>>
available_players == [i \in 1..NPool |-> i]

----------------------------------------------------------------------------
(* EvolutionEngine: population initialisation *)

\* the attempt limit of initialize_population
max_attempts == 10000

\* the greedy pass over the shuffled pool.  positions_filled has a key per
\* constrained position only, so a player of any other position raises
\* KeyError when its count is read.
RECURSIVE GreedyPass(_, _, _, _, _, _)
GreedyPass(h, cons, available, roster, positions_filled, cap_used) ==
    IF available = <<>>
    THEN Return([roster |-> roster, positions_filled |-> positions_filled,
                 cap_used |-> cap_used])
    ELSE LET player == Head(available)
             pos == h[player].position
             max_count == Get(cons.position_limits, pos, <<0, 10>>)[2]
         IN  IF pos \notin DOMAIN positions_filled THEN Raise("KeyError")
             ELSE IF /\ positions_filled[pos] < max_count
                     /\ cap_used + h[player].cap_hit_2026 <= cons.salary_cap
                     /\ Len(roster) < cons.max_roster_size
             THEN GreedyPass(h, cons, Tail(available), Append(roster, player),
                             [positions_filled EXCEPT ![pos] = @ + 1],
                             cap_used + h[player].cap_hit_2026)
             ELSE GreedyPass(h, cons, Tail(available), roster, positions_filled, cap_used)

\* "p.position == p" compares the position string with the player object
\* itself, which are never equal
PositionEqualsPlayer(h, p) == FALSE

\* min(candidates, key=cap hit): the first of the cheapest
RECURSIVE Cheapest(_, _)
Cheapest(h, candidates) ==
    IF Len(candidates) = 1 THEN Head(candidates)
    ELSE LET rest == Cheapest(h, Tail(candidates))
         IN  IF h[Head(candidates)].cap_hit_2026 <= h[rest].cap_hit_2026
             THEN Head(candidates) ELSE rest

\* the while loop of the repair step for one position
RECURSIVE FillPosition(_, _, _, _, _, _)
FillPosition(h, cons, available, pos, min_count, st) ==
    IF ~(st.positions_filled[pos] < min_count) THEN st
    ELSE LET candidates ==
                SelectSeq(available, LAMBDA p :
                    PositionEqualsPlayer(h, p) /\ p \notin Range(st.roster))
         IN  IF candidates = <<>> THEN st
             ELSE LET cheapest == Cheapest(h, candidates)
                  IN  IF st.cap_used + h[cheapest].cap_hit_2026 <= cons.salary_cap
                      THEN FillPosition(h, cons, available, pos, min_count,
                              [roster |-> Append(st.roster, cheapest),
                               positions_filled |->
                                   [st.positions_filled EXCEPT ![pos] = @ + 1],
                               cap_used |-> st.cap_used + h[cheapest].cap_hit_2026])
                      ELSE st

\* the repair step: every constrained position in turn
RECURSIVE FillMissing(_, _, _, _, _)
FillMissing(h, cons, available, positions, st) ==
    IF positions = {} THEN st
    ELSE LET pos == CHOOSE x \in positions : TRUE
         IN  FillMissing(h, cons, available, positions \ {pos},
                 FillPosition(h, cons, available, pos,
                              cons.position_limits[pos][1], st))

\* shuffled is available_players after random.shuffle
_generate_random_roster(h, cons, shuffled) ==
    LET greedy == GreedyPass(h, cons, shuffled, <<>>,
                             [pos \in DOMAIN cons.position_limits |-> 0], 0)
    IN  IF greedy.raised # "None" THEN greedy
        ELSE Return(FillMissing(h, cons, shuffled, DOMAIN cons.position_limits,
                                greedy.value).roster)

\* initialize_population.  The loop counts in "attempts" but increments
\* "attemps", a local that is never assigned: the first pass through the
\* loop body raises UnboundLocalError at that line unless the roster
\* generation or the validity check raised before, so one shuffle decides
\* the outcome.
initialize_population(h, cons, population_size, shuffled) ==
    LET population == <<Chromosome(current_roster)>>
        roster == _generate_random_roster(h, cons, shuffled)
        valid == is_valid(h, Chromosome(roster.value), cons)
    IN  IF ~(Len(population) < population_size /\ 0 < max_attempts)
        THEN Return([population |-> population,
                     warning |-> Len(population) < population_size])
        ELSE IF roster.raised # "None" THEN roster
        ELSE IF valid.raised # "None" THEN valid
        ELSE Raise("UnboundLocalError")

----------------------------------------------------------------------------
(* EvolutionEngine: selection and crossover *)

\* max that keeps the last of equally fit indices instead of the first
RECURSIVE MaxByFitnessLast(_, _, _)
MaxByFitnessLast(indices, fitness_scores, best) ==
    IF indices = <<>> THEN best
    ELSE MaxByFitnessLast(Tail(indices), fitness_scores,
            IF fitness_scores[Head(indices)] >= fitness_scores[best]
            THEN Head(indices) ELSE best)

\* max(tournament_indices, key=fitness): the first index of the sample
\* whose fitness no later one exceeds strictly
RECURSIVE MaxByFitness(_, _, _)
MaxByFitness(indices, fitness_scores, best) ==
    IF indices = <<>> THEN best
    ELSE MaxByFitness(Tail(indices), fitness_scores,
            IF fitness_scores[Head(indices)] > fitness_scores[best]
            THEN Head(indices) ELSE best)

\* the size of the sample random.sample is asked for
SampleSize(tournament_size, population) == Min(tournament_size, Len(population))

\* a selection that takes the winner out of the population list
tournament_selection_popping(population, fitness_scores, tournament_indices) ==
    LET best_idx == MaxByFitness(Tail(tournament_indices), fitness_scores,
                                 Head(tournament_indices))
    IN  [best_idx |-> best_idx, member |-> population[best_idx],
         population |-> SubSeq(population, 1, best_idx - 1)
                            \o SubSeq(population, best_idx + 1, Len(population))]

\* tournament_indices is the sample random.sample drew.  population is the
\* list argument as the call leaves it: the sample is drawn from the indices
\* and the winner is read by subscript, nothing is removed or reordered.
tournament_selection(population, fitness_scores, tournament_indices) ==
    LET best_idx == MaxByFitness(Tail(tournament_indices), fitness_scores,
                                 Head(tournament_indices))
    IN  [best_idx |-> best_idx, member |-> population[best_idx],
         population |-> population]

\* the players of a list at one position, in list order
AtPosition(h, players, position) ==
    SelectSeq(players, LAMBDA p : h[p].position = position)

\* the loop over all_positions; coin[position] is "random.random() < 0.5"
RECURSIVE Recombine(_, _, _, _, _, _, _)
Recombine(h, parent1, parent2, all_positions, coin, child1_players, child2_players) ==
    IF all_positions = <<>> THEN <<child1_players, child2_players>>
    ELSE LET position == Head(all_positions)
             p1_at_pos == AtPosition(h, parent1.players, position)
             p2_at_pos == AtPosition(h, parent2.players, position)
         IN  IF coin[position]
             THEN Recombine(h, parent1, parent2, Tail(all_positions), coin,
                            child1_players \o p1_at_pos, child2_players \o p2_at_pos)
             ELSE Recombine(h, parent1, parent2, Tail(all_positions), coin,
                            child1_players \o p2_at_pos, child2_players \o p1_at_pos)

\* a crossover that builds both children from child 1's player list
crossover_one_list(h, parent1, parent2, crossover_rate, draw, all_positions, coin) ==
    IF draw > crossover_rate
    THEN [children |-> <<clone(parent1, NPool),
                         clone(parent2, NPool + Len(parent1.players))>>,
          objects |-> CloneObjects(h, parent1) \o CloneObjects(h, parent2),
          recombined |-> FALSE,
          parents |-> <<parent1, parent2>>]
    ELSE LET players == Recombine(h, parent1, parent2, all_positions, coin, <<>>, <<>>)
         IN  [children |-> <<Chromosome(players[1]), Chromosome(players[1])>>,
              objects |-> <<>>,
              recombined |-> TRUE,
              parents |-> <<parent1, parent2>>]

\* crossover.  draw is the first random.random(), crossover_rate and draw in
\* hundredths; all_positions is the order in which the set of constrained
\* positions is iterated.  objects are the PlayerAsset objects it creates;
\* recombined tells which of the two return statements was reached; parents
\* are the two arguments as the call leaves them: the child lists start as
\* new empty lists and nothing is appended to a parent's.
crossover(h, parent1, parent2, crossover_rate, draw, all_positions, coin) ==
    IF draw > crossover_rate
    THEN [children |-> <<clone(parent1, NPool),
                         clone(parent2, NPool + Len(parent1.players))>>,
          objects |-> CloneObjects(h, parent1) \o CloneObjects(h, parent2),
          recombined |-> FALSE,
          parents |-> <<parent1, parent2>>]
    ELSE LET players == Recombine(h, parent1, parent2, all_positions, coin, <<>>, <<>>)
         IN  [children |-> <<Chromosome(players[1]), Chromosome(players[2])>>,
              objects |-> <<>>,
              recombined |-> TRUE,
              parents |-> <<parent1, parent2>>]

----------------------------------------------------------------------------
(* Initial state and the calls *)

NoCall == [op |-> "idle", raised |-> "None"]

\* the parameters of EvolutionEngine.__init__ besides self
InitParameters ==
    {"current_roster", "available_players", "constraints", "valuation_model"}

\* EvolutionEngine(**keywords): a keyword other than the four parameters is a
\* TypeError; the body assigns the constraints argument itself (a reference
\* to the caller's object), checks nothing and copies nothing
EvolutionEngine(keywords, constraints_ref) ==
    IF keywords # InitParameters
    THEN Raise("TypeError")
    ELSE Return([constraints |-> constraints_ref])

\* the RosterConstraints object the engine validates against
EngineConstraints == constraints[engine.constraints]

\* the state after engine = EvolutionEngine(roster, pool, constraints, model)
\* returned, for a constraints object the caller built
Init ==
    /\ heap = ValuedPool
    /\ \E c \in ConstraintChoices :
        LET r == EvolutionEngine(InitParameters, 1)
        IN  /\ r.raised = "None"
            /\ constraints = <<c>>
            /\ engine = r.value
    /\ ret = NoCall

Pool(h) == SubSeq(h, 1, NPool)

\* no call is in progress and no result is held
Idle == ret.op = "idle"

\* the caller drops the result of the last call; the objects only that
\* result referenced go with it
Discard ==
    /\ ~Idle
    /\ ret' = NoCall
    /\ heap' = Pool(heap)
    /\ UNCHANGED <<constraints, engine>>

\* Chromosome(players).is_valid(constraints)
IsValid ==
    /\ Idle
    /\ \E players \in Rosters :
        LET r == is_valid(heap, Chromosome(players), EngineConstraints)
        IN  /\ ret' = [op |-> "is_valid", players |-> players,
                       raised |-> r.raised, value |-> r.value]
            /\ heap' = Pool(heap)
            /\ UNCHANGED <<constraints, engine>>

\* chrom.clone()
Clone ==
    /\ Idle
    /\ \E players \in Rosters :
        LET c == Chromosome(players)
        IN  /\ heap' = Pool(heap) \o CloneObjects(heap, c)
            /\ ret' = [op |-> "clone", players |-> players, raised |-> "None",
                       value |-> clone(c, NPool),
                       cap_before |-> total_cap(heap, c),
                       objects_before |-> CloneObjects(heap, c),
                       modified |-> FALSE]
            /\ UNCHANGED <<constraints, engine>>

\* engine.fitness_function(Chromosome(players))
FitnessFunction ==
    /\ Idle
    /\ \E players \in Rosters :
        LET r == fitness_function(heap, Chromosome(players), EngineConstraints)
        IN  /\ ret' = [op |-> "fitness_function", players |-> players,
                       raised |-> r.raised, value |-> r.value]
            /\ heap' = Pool(heap)
            /\ UNCHANGED <<constraints, engine>>

\* engine._calculate_position_balance(Chromosome(players))
CalculatePositionBalance ==
    /\ Idle
    /\ \E players \in Rosters :
        ret' = [op |-> "_calculate_position_balance", players |-> players,
                raised |-> "None",
                value |-> _calculate_position_balance(heap, Chromosome(players),
                                                      EngineConstraints)]
    /\ heap' = Pool(heap)
    /\ UNCHANGED <<constraints, engine>>

\* the caller assigns a field of one player of the clone it was handed:
\* cloned.players[i].cap_hit_2026 = cap
SetPlayerField ==
    /\ ret.op = "clone"
    /\ ~ret.modified
    /\ \E i \in DOMAIN ret.value.players, cap \in {0, 9000} :
        /\ heap[ret.value.players[i]].cap_hit_2026 # cap
        /\ heap' = [heap EXCEPT ![ret.value.players[i]].cap_hit_2026 = cap]
    /\ ret' = [ret EXCEPT !.modified = TRUE]
    /\ UNCHANGED <<constraints, engine>>

\* the orders in which a set can be iterated
Orders(S) == {s \in [1..Cardinality(S) -> S] : IsInjective(s)}

\* values of crossover_rate and of random.random(), in hundredths
CrossoverRates == {0, 80, 100}
RandomDraws == {0, 90}

\* engine.crossover(Chromosome(p1), Chromosome(p2))
Crossover ==
    /\ Idle
    /\ \E p1 \in Rosters, p2 \in Rosters, rate \in CrossoverRates, draw \in RandomDraws :
      \E order \in Orders(DOMAIN EngineConstraints.position_limits),
         coin \in [DOMAIN EngineConstraints.position_limits -> BOOLEAN] :
        LET r == crossover(heap, Chromosome(p1), Chromosome(p2), rate, draw, order, coin)
        IN  /\ heap' = Pool(heap) \o r.objects
            /\ ret' = [op |-> "crossover", parent1 |-> p1, parent2 |-> p2,
                       crossover_rate |-> rate, draw |-> draw,
                       all_positions |-> IF draw > rate THEN <<>> ELSE order,
                       coin |-> IF draw > rate THEN <<>> ELSE coin,
                       raised |-> "None", value |-> r.children,
                       recombined |-> r.recombined,
                       parents_after |-> r.parents]
            /\ UNCHANGED <<constraints, engine>>

\* a population of n distinct members and the fitness values scored for it
PopulationOf(n) == [i \in 1..n |-> Chromosome(<<((i - 1) % NPool) + 1>>)]
FitnessLevels == {Sentinel * Unit, 0, Unit \div 2}

\* engine.tournament_selection(population, fitness_scores)
TournamentSelection ==
    /\ Idle
    /\ \E n \in 1..MaxPopulation, tournament_size \in 1..MaxSize :
      \E fitness_scores \in [1..n -> FitnessLevels] :
        LET population == PopulationOf(n)
            k == SampleSize(tournament_size, population)
        IN  \E tournament_indices \in {s \in [1..k -> 1..n] : IsInjective(s)} :
              LET r == tournament_selection(population, fitness_scores, tournament_indices)
              IN  /\ ret' = [op |-> "tournament_selection", population |-> population,
                             fitness_scores |-> fitness_scores,
                             tournament_size |-> tournament_size,
                             tournament_indices |-> tournament_indices,
                             raised |-> "None", best_idx |-> r.best_idx,
                             value |-> r.member,
                             population_after |-> r.population]
                  /\ heap' = Pool(heap)
                  /\ UNCHANGED <<constraints, engine>>

\* engine.mutate(Chromosome(players)) with mutation_rate set to 1.0
Mutate ==
    /\ Idle
    /\ \E players \in Rosters :
        /\ ret' = [op |-> "mutate", players |-> players, mutation_rate |-> 100,
                   raised |-> GetAttribute("mutate").raised, value |-> <<>>]
        /\ heap' = Pool(heap)
        /\ UNCHANGED <<constraints, engine>>

\* engine.evolve() with engine.generations set by the caller
Evolve ==
    /\ Idle
    /\ \E generations \in 1..MaxSize :
        /\ ret' = [op |-> "evolve", generations |-> generations,
                   raised |-> GetAttribute("evolve").raised, value |-> <<>>]
        /\ heap' = Pool(heap)
        /\ UNCHANGED <<constraints, engine>>

\* engine._generate_random_roster()
GenerateRandomRoster ==
    /\ Idle
    /\ \E shuffled \in Orders(Range(available_players)) :
        LET r == _generate_random_roster(heap, EngineConstraints, shuffled)
        IN  ret' = [op |-> "_generate_random_roster", shuffled |-> shuffled,
                    raised |-> r.raised, value |-> r.value]
    /\ heap' = Pool(heap)
    /\ UNCHANGED <<constraints, engine>>

\* engine.initialize_population() with engine.population_size set by the caller
InitializePopulation ==
    /\ Idle
    /\ \E population_size \in 1..MaxSize, shuffled \in Orders(Range(available_players)) :
        LET r == initialize_population(heap, EngineConstraints, population_size, shuffled)
        IN  /\ ret' = [op |-> "initialize_population",
                       population_size |-> population_size,
                       raised |-> r.raised, value |-> r.value]
            /\ heap' = Pool(heap)
            /\ UNCHANGED <<constraints, engine>>

\* the players a caller hands to value_player
RawPlayers ==
    {PlayerAsset("raw", pos, age, cap, 1, epa, snaps, missed) :
        pos \in {"QB", "K", "FB"}, age \in {27, 33}, cap \in {0, 1000},
        epa \in {0 - 200, 20}, snaps \in {0, 2000}, missed \in {0, 30}}

\* model.value_player(player) on a newly constructed PlayerAsset
ValuePlayer ==
    /\ Idle
    /\ \E raw \in RawPlayers :
        LET r == value_player(raw)
        IN  /\ heap' = Pool(heap) \o <<r.player>>
            /\ ret' = [op |-> "value_player", player |-> raw,
                       raised |-> r.raised, value |-> NPool + 1,
                       applications |-> 1,
                       first |-> [raised |-> r.raised, player |-> r.player]]
            /\ UNCHANGED <<constraints, engine>>

\* model.value_player(player) once more on the object the first call valued
ValuePlayerAgain ==
    /\ ret.op = "value_player"
    /\ ret.applications = 1
    /\ LET r == value_player(heap[ret.value])
       IN  /\ heap' = [heap EXCEPT ![ret.value] = r.player]
           /\ ret' = [ret EXCEPT !.raised = r.raised, !.applications = 2]
    /\ UNCHANGED <<constraints, engine>>

\* PortfolioAnalyzer(players).<metric>()
PortfolioCall(name, r) ==
    /\ Idle
    /\ ret' = [op |-> name, players |-> r.players,
               raised |-> r.result.raised, value |-> r.result.value]
    /\ heap' = Pool(heap)
    /\ UNCHANGED <<constraints, engine>>

\* the risk-free rates a caller constructs a model with: the default 0.03
\* and 0.05, times Unit
RiskFreeRates == {(3 * Unit) \div 100, (5 * Unit) \div 100}

\* PlayerValuationModel(risk_free_rate).calculate_npv(player) on a valued
\* pool player
CalculateNpv ==
    /\ Idle
    /\ \E risk_free_rate \in RiskFreeRates, i \in 1..NPool :
        LET r == calculate_npv(risk_free_rate, heap[i])
        IN  ret' = [op |-> "calculate_npv", risk_free_rate |-> risk_free_rate,
                    player |-> i, raised |-> r.raised, value |-> r.value]
    /\ heap' = Pool(heap)
    /\ UNCHANGED <<constraints, engine>>

\* PortfolioAnalyzer(model.value_roster(roster)).summary_report()
SummaryReport ==
    /\ Idle
    /\ \E roster \in ReportRosters :
        LET valued == value_roster(roster)
            players == [i \in DOMAIN roster |-> NPool + i]
        IN  IF valued.raised # "None"
            THEN /\ heap' = Pool(heap)
                 /\ ret' = [op |-> "summary_report", players |-> <<>>,
                            raised |-> valued.raised, value |-> <<>>]
            ELSE LET h == Pool(heap) \o valued.value
                     r == summary_report(h, players)
                 IN  /\ heap' = h
                     /\ ret' = [op |-> "summary_report", players |-> players,
                                raised |-> r.raised, value |-> r.value]
    /\ UNCHANGED <<constraints, engine>>

PortfolioEfficiency ==
    \E players \in Rosters :
        PortfolioCall("portfolio_efficiency",
            [players |-> players, result |-> portfolio_efficiency(heap, players)])

PortfolioRisk ==
    \E players \in Rosters :
        PortfolioCall("portfolio_risk",
            [players |-> players, result |-> portfolio_risk(heap, players)])

PortfolioSharpe ==
    \E players \in Rosters :
        PortfolioCall("portfolio_sharpe",
            [players |-> players, result |-> portfolio_sharpe(heap, players)])

PositionAllocation ==
    \E players \in Rosters :
        PortfolioCall("position_allocation",
            [players |-> players, result |-> position_allocation(heap, players)])

\* EvolutionEngine(roster, pool, constraints, model[, seed=...]): the caller
\* builds another engine from the constraints object it holds
Construct ==
    /\ Idle
    /\ \E keywords \in {InitParameters, InitParameters \cup {"seed"}} :
        LET r == EvolutionEngine(keywords, 1)
        IN  ret' = [op |-> "EvolutionEngine", keywords |-> keywords,
                    raised |-> r.raised, value |-> r.value]
    /\ heap' = Pool(heap)
    /\ UNCHANGED <<constraints, engine>>

\* the caller assigns a field of the RosterConstraints object it built:
\* constraints.salary_cap = 1000
SetConstraintsField ==
    /\ Idle
    /\ constraints[1].salary_cap # 1000
    /\ constraints' = [constraints EXCEPT ![1].salary_cap = 1000]
    /\ UNCHANGED <<heap, engine, ret>>

Next ==
    \/ Construct
    \/ SetConstraintsField
    \/ IsValid
    \/ FitnessFunction
    \/ CalculatePositionBalance
    \/ Clone
    \/ SetPlayerField
    \/ Crossover
    \/ TournamentSelection
    \/ Mutate
    \/ Evolve
    \/ GenerateRandomRoster
    \/ InitializePopulation
    \/ ValuePlayer
    \/ ValuePlayerAgain
    \/ CalculateNpv
    \/ SummaryReport
    \/ PortfolioEfficiency
    \/ PortfolioRisk
    \/ PortfolioSharpe
    \/ PositionAllocation
    \/ Discard

Spec == Init /\ [][Next]_vars

----------------------------------------------------------------------------
(* Properties *)

\* the roster's size is outside [min, max] or its total cap exceeds the cap
OutOfBounds(players) ==
    \/ Len(players) < EngineConstraints.min_roster_size
    \/ Len(players) > EngineConstraints.max_roster_size
    \/ SumSeq([i \in DOMAIN players |-> heap[players[i]].cap_hit_2026])
            > EngineConstraints.salary_cap

\* every listed position's count, 0 when absent, is inside its bounds
WithinLimits(players) ==
    \A pos \in DOMAIN EngineConstraints.position_limits :
        LET count == Cardinality({i \in DOMAIN players : heap[players[i]].position = pos})
        IN  /\ EngineConstraints.position_limits[pos][1] <= count
            /\ count <= EngineConstraints.position_limits[pos][2]

\* C1: for a roster whose size is outside [min_roster_size, max_roster_size]
\* or whose total cap hit exceeds salary_cap, is_valid returns False and
\* fitness_function returns the sentinel -1000, whatever the position counts.
C1_OutOfBoundsIsInvalid ==
    /\ (ret.op = "is_valid" /\ OutOfBounds(ret.players))
            => (ret.raised = "None" /\ ret.value = FALSE)
    /\ (ret.op = "fitness_function" /\ OutOfBounds(ret.players))
            => (ret.raised = "None" /\ ret.value = Sentinel * Unit)

\* fitness_function has returned the sentinel for a roster whose size and
\* position counts are all within bounds and whose total cap is over the cap
C1_Witness ==
    /\ ret.op = "fitness_function"
    /\ Len(ret.players) >= EngineConstraints.min_roster_size
    /\ Len(ret.players) <= EngineConstraints.max_roster_size
    /\ WithinLimits(ret.players)
    /\ OutOfBounds(ret.players)
    /\ ret.raised = "None"
    /\ ret.value = Sentinel * Unit

\* C2: for a roster whose size and total cap are within bounds, is_valid
\* returns (does not raise) a boolean that is true exactly when every
\* position of position_limits has its count, 0 when absent, within its
\* inclusive (min, max).
C2_PositionLimitsDecide ==
    (ret.op = "is_valid" /\ ~OutOfBounds(ret.players))
        => (ret.raised = "None" /\ (ret.value <=> WithinLimits(ret.players)))

\* C3: fitness_function never raises; it returns the sentinel -1000 for
\* every roster that violates the constraints and a value strictly greater
\* than -1000 for every roster that satisfies them.
C3_FitnessNeverRaises ==
    ret.op = "fitness_function"
        => /\ ret.raised = "None"
           /\ (OutOfBounds(ret.players) \/ ~WithinLimits(ret.players))
                => ret.value = Sentinel * Unit
           /\ (~OutOfBounds(ret.players) /\ WithinLimits(ret.players))
                => ret.value > Sentinel * Unit

\* C4: clone() returns a new Candidate with as many players and, when it
\* returns, the same total cap, none of its player objects being an object
\* of the original; assigning a field of a clone's player afterwards leaves
\* the original's players and total cap as they were.
C4_CloneIsIndependent ==
    ret.op = "clone"
        => /\ ret.raised = "None"
           /\ Len(ret.value.players) = Len(ret.players)
           /\ Range(ret.value.players) \cap Range(ret.players) = {}
           /\ ~ret.modified => total_cap(heap, ret.value) = ret.cap_before
           /\ \A i \in DOMAIN ret.players : heap[ret.players[i]] = ret.objects_before[i]
           /\ total_cap(heap, Chromosome(ret.players)) = ret.cap_before

\* a field of a player of a non-empty clone has been assigned
C4_Witness ==
    /\ ret.op = "clone"
    /\ ret.modified
    /\ ret.players # <<>>
    /\ total_cap(heap, ret.value) # ret.cap_before

\* the roster satisfies every constraint: size, cap and position limits
SatisfiesConstraints(players) == ~OutOfBounds(players) /\ WithinLimits(players)

\* how many entries of the player list are at the position / are the player
CountAt(players, position) ==
    Cardinality({i \in DOMAIN players : heap[players[i]].position = position})
CountOf(players, id) ==
    Cardinality({i \in DOMAIN players : heap[players[i]].player_id = id})

\* C5: for two valid parents and any random draws, crossover returns two
\* children whose player counts at every position add up to the parents'
\* counts at that position; no player of a parent is lost or duplicated.
C5_CrossoverConservesPlayers ==
    (/\ ret.op = "crossover"
     /\ SatisfiesConstraints(ret.parent1)
     /\ SatisfiesConstraints(ret.parent2))
        => /\ \A position \in {heap[i].position : i \in 1..NPool} :
                CountAt(ret.value[1].players, position)
                    + CountAt(ret.value[2].players, position)
                = CountAt(ret.parent1, position) + CountAt(ret.parent2, position)
           /\ \A id \in {heap[i].player_id : i \in 1..NPool} :
                CountOf(ret.value[1].players, id) + CountOf(ret.value[2].players, id)
                = CountOf(ret.parent1, id) + CountOf(ret.parent2, id)

\* C6: tournament_selection on a non-empty population draws
\* min(tournament_size, population size) distinct indices and returns a
\* member of highest fitness among them; a member strictly fitter than all
\* others is returned whenever it is drawn, and among drawn members that tie
\* for the highest fitness the first encountered is returned.
C6_TournamentReturnsFittest ==
    ret.op = "tournament_selection"
        => LET drawn == ret.tournament_indices
               fitness == ret.fitness_scores
               n == Len(ret.population)
               best == ret.best_idx
           IN  /\ ret.raised = "None"
               /\ Len(drawn) = IF ret.tournament_size < n THEN ret.tournament_size ELSE n
               /\ IsInjective(drawn)
               /\ Range(drawn) \subseteq 1..n
               /\ best \in Range(drawn)
               /\ ret.value = ret.population[best]
               /\ \A j \in Range(drawn) : fitness[j] <= fitness[best]
               /\ \A m \in Range(drawn) :
                    (\A j \in (1..n) \ {m} : fitness[j] < fitness[m]) => best = m
               /\ \A i, j \in DOMAIN drawn :
                    (drawn[i] = best /\ fitness[drawn[j]] = fitness[best]) => i <= j

\* the whole of a population smaller than tournament_size was drawn, and the
\* member returned ties with a drawn member of lower index met after it
C6_Witness ==
    /\ ret.op = "tournament_selection"
    /\ Len(ret.population) < ret.tournament_size
    /\ Len(ret.tournament_indices) = Len(ret.population)
    /\ \E j \in Range(ret.tournament_indices) :
        /\ j < ret.best_idx
        /\ ret.fitness_scores[j] = ret.fitness_scores[ret.best_idx]
    /\ ret.value = ret.population[ret.best_idx]

\* C7: the engine has a mutate operation that, with mutation_rate = 1.0,
\* returns a Candidate of the same size and the same count at every
\* position in which exactly one player is replaced by a pool player of the
\* same position not on the roster.
C7_MutateReplacesOnePlayer ==
    (ret.op = "mutate" /\ ret.mutation_rate = 100)
        => /\ ret.raised = "None"
           /\ Len(ret.value.players) = Len(ret.players)
           /\ \A position \in {heap[i].position : i \in 1..NPool} :
                CountAt(ret.value.players, position) = CountAt(ret.players, position)
           /\ \E i \in DOMAIN ret.players :
                /\ heap[ret.value.players[i]].player_id
                        \notin {heap[q].player_id : q \in Range(ret.players)}
                /\ \A j \in DOMAIN ret.players \ {i} :
                        heap[ret.value.players[j]].player_id
                            = heap[ret.players[j]].player_id

\* C8: evolve() ends after the configured number of generations and returns
\* the best-ever Candidate and a history of one entry per generation, the
\* Candidate's fitness being the largest best_fitness of the history.
C8_EvolveReturnsBestAndHistory ==
    ret.op = "evolve"
        => /\ ret.raised = "None"
           /\ Len(ret.value.history) = ret.generations
           /\ \A g \in DOMAIN ret.value.history :
                ret.value.history[g].best_fitness <= ret.value.best_fitness
           /\ \E g \in DOMAIN ret.value.history :
                ret.value.history[g].best_fitness = ret.value.best_fitness

\* C9: initialize_population never raises; for population_size >= 1 it
\* returns a population whose member 0 is the current roster and whose
\* length is at most population_size, with a warning when it is shorter.
C9_InitializePopulationNeverRaises ==
    ret.op = "initialize_population"
        => /\ ret.raised = "None"
           /\ Len(ret.value.population) >= 1
           /\ ret.value.population[1] = Chromosome(current_roster)
           /\ Len(ret.value.population) <= ret.population_size
           /\ Len(ret.value.population) < ret.population_size => ret.value.warning

\* C10: no valuation or portfolio operation raises a division fault:
\* value_player sets efficiency_ratio to 0 for a cap hit of 0 and the
\* risk-adjusted return to 0 for a risk score of 0, and for a roster whose
\* total cap is 0 the portfolio efficiency, risk, risk-adjusted return and
\* position allocation are 0.
C10_NoDivisionFault ==
    /\ ret.op = "value_player"
        => /\ ret.raised = "None"
           /\ ret.player.cap_hit_2026 = 0 => heap[ret.value].efficiency_ratio = 0
           /\ heap[ret.value].risk_score = 0 => heap[ret.value].sharpe_ratio = 0
    /\ (/\ ret.op \in {"portfolio_efficiency", "portfolio_risk", "portfolio_sharpe"}
        /\ SumSeq([i \in DOMAIN ret.players |-> heap[ret.players[i]].cap_hit_2026]) = 0)
        => (ret.raised = "None" /\ ret.value = 0)
    /\ (/\ ret.op = "position_allocation"
        /\ SumSeq([i \in DOMAIN ret.players |-> heap[ret.players[i]].cap_hit_2026]) = 0)
        => /\ ret.raised = "None"
           /\ \A position \in DOMAIN ret.value :
                ~ret.value[position].nan /\ ret.value[position].v = 0

\* some (min, max) pair of the constraints is inverted
Malformed(cons) ==
    \/ cons.min_roster_size > cons.max_roster_size
    \/ \E pos \in DOMAIN cons.position_limits :
        cons.position_limits[pos][1] > cons.position_limits[pos][2]

\* C11: constructing an engine from malformed constraints (a position with
\* min_count > max_count, or min_roster_size > max_roster_size) raises, so
\* no fitness is evaluated and no population is initialised by an engine
\* whose constraints are malformed.
C11_MalformedConstraintsRejected ==
    /\ (ret.op = "EvolutionEngine" /\ ret.keywords = InitParameters
            /\ Malformed(constraints[1]))
        => ret.raised # "None"
    /\ ret.op \in {"fitness_function", "initialize_population"}
        => ~Malformed(EngineConstraints)

\* C12: the engine owns its own copy of the constraints: whatever the
\* caller does to the RosterConstraints object it passed (salary_cap, roster
\* size, position_limits), the constraints the engine validates against
\* stay what they were at construction.
C12_EngineOwnsItsConstraints ==
    [][EngineConstraints' = EngineConstraints]_vars

\* the place of x in the sequence s
IndexOf(s, x) == CHOOSE i \in DOMAIN s : s[i] = x

\* the coin of each position when the same sequence of random draws (the
\* same seed) meets the iteration order order2
SameDraws(order2) ==
    [pos \in DOMAIN ret.coin |-> ret.coin[ret.all_positions[IndexOf(order2, pos)]]]

\* C13: the engine accepts an injected seed, and the operations that draw
\* random numbers give equal outputs on equal inputs with the same seed:
\* constructing with seed=... returns, and the children of a crossover are
\* determined by the parents, the rate and the sequence of draws.
C13_SeededRunsAreReproducible ==
    /\ (ret.op = "EvolutionEngine" /\ "seed" \in ret.keywords)
        => ret.raised = "None"
    /\ (ret.op = "crossover" /\ ret.draw <= ret.crossover_rate)
        => \A order2 \in Orders(Range(ret.all_positions)) :
            crossover(heap, Chromosome(ret.parent1), Chromosome(ret.parent2),
                      ret.crossover_rate, ret.draw, order2,
                      SameDraws(order2)).children = ret.value

\* the fields value_player reads and never assigns
InputFields(p) ==
    <<p.player_id, p.position, p.age, p.cap_hit_2026, p.years_remaining,
      p.epa_total, p.snaps_played, p.games_missed>>

\* C14: value_player is idempotent: when the first application completes,
\* a second one completes too and leaves expected_value, risk_score,
\* fair_value, efficiency_ratio and sharpe_ratio as the first left them; no
\* application changes the identity, contract or performance fields.
C14_ValuePlayerIsIdempotent ==
    ret.op = "value_player" =>
        /\ InputFields(heap[ret.value]) = InputFields(ret.player)
        /\ (ret.applications = 2 /\ ret.first.raised = "None")
            => /\ ret.raised = "None"
               /\ heap[ret.value] = ret.first.player

\* a second application on a player whose value was discounted for risk
C14_Witness ==
    /\ ret.op = "value_player"
    /\ ret.applications = 2
    /\ ret.first.raised = "None"
    /\ ret.first.player.risk_score > 0
    /\ ret.first.player.fair_value > 0
    /\ ret.first.player.sharpe_ratio # 0

\* the per-position score as the claim tabulates it; -1 where the claim
\* fixes no value (a count strictly between an end and the midpoint)
ClaimedScore(count, min_count, max_count) ==
    IF count < min_count \/ count > max_count THEN 0
    ELSE IF min_count = max_count THEN Unit
    ELSE IF 2 * count = min_count + max_count THEN Unit
    ELSE IF count = min_count \/ count = max_count THEN Unit \div 2
    ELSE 0 - 1

ClaimedScores(players) ==
    [pos \in DOMAIN EngineConstraints.position_limits |->
        ClaimedScore(CountAt(players, pos),
                     EngineConstraints.position_limits[pos][1],
                     EngineConstraints.position_limits[pos][2])]

\* C15: the position-balance score is the average over the constrained
\* positions of a score that is 0 for a count outside [min, max], 1.0 when
\* min = max and the count is in range, 1.0 at the midpoint and 0.5 at the
\* minimum or the maximum when min < max, each position against its own
\* bounds; the result lies in [0, 1].
C15_PositionBalanceScore ==
    ret.op = "_calculate_position_balance" =>
        LET limits == EngineConstraints.position_limits
            claimed == ClaimedScores(ret.players)
        IN  /\ ret.raised = "None"
            /\ 0 <= ret.value /\ ret.value <= Unit
            /\ (\A pos \in DOMAIN limits : claimed[pos] >= 0)
                => ret.value = IF DOMAIN limits = {} THEN 0
                               ELSE SumOver(claimed, DOMAIN limits)
                                        \div Cardinality(DOMAIN limits)

\* a roster with one position at the midpoint of its range, one at an end of
\* its range and one scored 1.0 or 0.5 by bounds other than the first's
C15_Witness ==
    /\ ret.op = "_calculate_position_balance"
    /\ LET limits == EngineConstraints.position_limits
       IN  /\ \E pos \in DOMAIN limits :
                /\ limits[pos][1] < limits[pos][2]
                /\ 2 * CountAt(ret.players, pos) = limits[pos][1] + limits[pos][2]
           /\ \E pos \in DOMAIN limits :
                /\ limits[pos][1] < limits[pos][2]
                /\ CountAt(ret.players, pos) = limits[pos][2]
           /\ \A pos \in DOMAIN limits : ClaimedScores(ret.players)[pos] >= 0

\* the roster reported on, its total cap hit and its risk scores
Reported == [i \in DOMAIN ret.players |-> heap[ret.players[i]]]
ReportedCap == SumSeq([i \in DOMAIN Reported |-> Reported[i].cap_hit_2026])
ReportedRisks == {Reported[i].risk_score : i \in DOMAIN Reported}
SmallestRisk == CHOOSE r \in ReportedRisks : \A q \in ReportedRisks : r <= q
LargestRisk == CHOOSE r \in ReportedRisks : \A q \in ReportedRisks : q <= r
RiskTimesCap ==
    SumSeq([i \in DOMAIN Reported |->
                Reported[i].risk_score * Reported[i].cap_hit_2026])

\* C16 as amended: for a valued roster with positive total cap the report's
\* total_cost is the exact sum of the cap hits (79,800 thousand for the test
\* roster) and its risk is the cap-hit-weighted average of the risk scores up
\* to the rounding of each weight and product (a unit each per player), so
\* it is within that error of [smallest, largest] risk score, and in [0, 0.5].
C16_ReportCostAndRiskUpToRounding ==
    (ret.op = "summary_report" /\ ret.raised = "None" /\ ReportedCap > 0) =>
        LET n == 2 * Len(Reported)
            risk == ret.value.risk
        IN  /\ ret.value.total_cost = ReportedCap
            /\ [i \in DOMAIN Reported |-> Reported[i].player_id]
                    = [i \in DOMAIN test_roster |-> test_roster[i].player_id]
                => ret.value.total_cost = 79800
            /\ (risk - n) * ReportedCap <= RiskTimesCap
            /\ RiskTimesCap <= (risk + n) * ReportedCap
            /\ SmallestRisk - n <= risk
            /\ risk <= LargestRisk + n
            /\ 0 <= risk /\ risk <= Unit \div 2

\* C16: for a valued roster with positive total cap the report's total_cost
\* is the exact sum of the cap hits (79,800 thousand for the test roster) and
\* its risk is the cap-hit-weighted average of the risk scores, so it lies
\* between the smallest and the largest risk score and within [0, 0.5].
C16_ReportCostAndRisk ==
    (ret.op = "summary_report" /\ ReportedCap > 0) =>
        /\ ret.raised = "None"
        /\ ret.value.total_cost = ReportedCap
        /\ SmallestRisk <= ret.value.risk
        /\ ret.value.risk <= LargestRisk
        /\ 0 <= ret.value.risk /\ ret.value.risk <= Unit \div 2

\* the report of the three-player test roster
C16_Witness ==
    /\ ret.op = "summary_report"
    /\ ret.raised = "None"
    /\ [i \in DOMAIN Reported |-> Reported[i].player_id]
            = [i \in DOMAIN test_roster |-> test_roster[i].player_id]
    /\ ret.value.total_cost = 79800
    /\ Cardinality(ReportedRisks) = 3

\* annual_net / (1 + r + 0.10 * risk_score) ^ t of the claim
RECURSIVE ClaimedTerm(_, _, _)
ClaimedTerm(p, r, t) ==
    IF t = 0
    THEN p.expected_value \div Max(p.years_remaining, 1) - p.cap_hit_2026
    ELSE (ClaimedTerm(p, r, t - 1) * Unit) \div (Unit + r + p.risk_score \div 10)

\* C17: a model constructed with risk-free rate r computes the net present
\* value of every valued player without raising, as the sum over
\* t = 0..years_remaining-1 of annual_net / (1 + r + 0.10 * risk_score)^t;
\* the result is 0 when years_remaining is 0.
C17_NetPresentValue ==
    ret.op = "calculate_npv" =>
        LET p == heap[ret.player]
        IN  /\ ret.raised = "None"
            /\ ret.value = SumSeq([t \in 1..p.years_remaining |->
                                ClaimedTerm(p, ret.risk_free_rate, t - 1)])
            /\ p.years_remaining = 0 => ret.value = 0

\* the child is a copy of the parent: as many players, in the same order,
\* each a new object equal to the parent's
IsCopyOf(child, parent) ==
    /\ Len(child.players) = Len(parent)
    /\ \A i \in DOMAIN parent :
        /\ child.players[i] > NPool
        /\ heap[child.players[i]] = heap[parent[i]]

\* C18: when crossover does not recombine, child 1 has parent 1's players in
\* parent 1's order and child 2 parent 2's, as new objects shared with no
\* parent; the branch is taken with probability 1 - crossover_rate: never
\* when crossover_rate is 1 and always when it is 0.
C18_NoRecombinationBranch ==
    ret.op = "crossover" =>
        /\ ~ret.recombined =>
            /\ IsCopyOf(ret.value[1], ret.parent1)
            /\ IsCopyOf(ret.value[2], ret.parent2)
            /\ Range(ret.value[1].players) \cap Range(ret.value[2].players) = {}
        /\ ret.crossover_rate = 100 => ret.recombined
        /\ ret.crossover_rate = 0 => ~ret.recombined

\* the players of the list at the position, in list order
PlayersAt(players, position) ==
    SelectSeq(players, LAMBDA p : heap[p].position = position)

\* the recombination of two parents that satisfy the constraints
RecombinedValidParents ==
    /\ ret.op = "crossover"
    /\ ret.recombined
    /\ SatisfiesConstraints(ret.parent1)
    /\ SatisfiesConstraints(ret.parent2)

\* C19: when crossover recombines two valid parents, at every constrained
\* position one child holds exactly parent 1's players of that position and
\* the other exactly parent 2's, which way round being decided by that
\* position's own draw; so each child meets every per-position quota and
\* holds no player twice.  (Its size and total cap may be out of bounds.)
C19_RecombinationKeepsPositionQuotas ==
    RecombinedValidParents =>
        LET child1 == ret.value[1].players
            child2 == ret.value[2].players
        IN  /\ \A pos \in DOMAIN EngineConstraints.position_limits :
                IF ret.coin[pos]
                THEN /\ PlayersAt(child1, pos) = PlayersAt(ret.parent1, pos)
                     /\ PlayersAt(child2, pos) = PlayersAt(ret.parent2, pos)
                ELSE /\ PlayersAt(child1, pos) = PlayersAt(ret.parent2, pos)
                     /\ PlayersAt(child2, pos) = PlayersAt(ret.parent1, pos)
            /\ WithinLimits(child1) /\ WithinLimits(child2)
            /\ IsInjective(child1) /\ IsInjective(child2)

\* a recombination in which two positions went opposite ways, both with
\* players to hand over, and a child came out with a size or a total cap
\* outside the bounds
C19_Witness ==
    /\ RecombinedValidParents
    /\ \E pos, other \in DOMAIN EngineConstraints.position_limits :
        /\ ret.coin[pos] /\ ~ret.coin[other]
        /\ PlayersAt(ret.parent1, pos) # <<>>
        /\ PlayersAt(ret.parent2, other) # <<>>
    /\ \E i \in 1..2 : OutOfBounds(ret.value[i].players)

\* C20: for any pool (players of any position code, each listed once) and
\* any shuffle order, _generate_random_roster returns without raising a
\* roster with no player twice, at most max players at every constrained
\* position, a total cap hit within the salary cap and at most
\* max_roster_size players.
C20_RandomRosterRespectsUpperBounds ==
    ret.op = "_generate_random_roster" =>
        /\ ret.raised = "None"
        /\ IsInjective(ret.value)
        /\ \A pos \in DOMAIN EngineConstraints.position_limits :
            CountAt(ret.value, pos) <= EngineConstraints.position_limits[pos][2]
        /\ total_cap(heap, Chromosome(ret.value)) <= EngineConstraints.salary_cap
        /\ Len(ret.value) <= EngineConstraints.max_roster_size

\* the pool players of the position that the roster does not hold and whose
\* cap hit fits in what the roster leaves of the salary cap
AffordableRemaining(roster, pos) ==
    {p \in Range(available_players) :
        /\ p \notin Range(roster)
        /\ heap[p].position = pos
        /\ total_cap(heap, Chromosome(roster)) + heap[p].cap_hit_2026
                <= EngineConstraints.salary_cap}

\* C21: in the roster _generate_random_roster returns, a constrained
\* position is below its minimum only if no pool player of that position
\* outside the roster fits in the remaining cap (the repair step admits the
\* cheapest one until the minimum is met or it no longer fits), and the
\* repair step never fails: with every pool position constrained the call
\* returns.
C21_RepairFillsToMinimum ==
    ret.op = "_generate_random_roster" =>
        LET limits == EngineConstraints.position_limits
        IN  /\ (\A p \in Range(available_players) : heap[p].position \in DOMAIN limits)
                => ret.raised = "None"
            /\ ret.raised = "None"
                => \A pos \in DOMAIN limits :
                    CountAt(ret.value, pos) < limits[pos][1]
                        => AffordableRemaining(ret.value, pos) = {}

\* C22: after any sequence of fitness_function, tournament_selection and
\* crossover calls every field of every pool player is what it was before
\* them, and the player sequences of the candidates passed in are unchanged,
\* although recombined children hold the very objects of the pool and of
\* their parents.
C22_CallsLeaveInputsUnchanged ==
    ret.op \in {"fitness_function", "tournament_selection", "crossover"} =>
        /\ Pool(heap) = ValuedPool
        /\ ret.op = "crossover" =>
            /\ ret.parents_after[1].players = ret.parent1
            /\ ret.parents_after[2].players = ret.parent2
        /\ ret.op = "tournament_selection" =>
            ret.population_after = ret.population

\* a recombination whose children hold pool objects of both parents
C22_Witness ==
    /\ ret.op = "crossover"
    /\ ret.recombined
    /\ \E i \in 1..2 :
        /\ Range(ret.value[i].players) \cap Range(ret.parent1) # {}
        /\ Range(ret.value[i].players) \cap Range(ret.parent2) # {}
        /\ Range(ret.value[i].players) \subseteq 1..NPool
    /\ Pool(heap) = ValuedPool

====
